---- MODULE Spec2Model ----
(***************************************************************************)
(* Folder-backed kanban board (src/parsers/FolderFormat.ts).               *)
(*                                                                         *)
(* The vault is a set of column folders under the board root and a map     *)
(* from item-file paths to file contents. The in-memory board is a         *)
(* sequence of lanes, each a title and a sequence of items; an item keeps  *)
(* a back-reference (metadata.file) to the file it was loaded from.        *)
(*                                                                         *)
(* Strings that the code inspects character by character (titles, file     *)
(* base names) are sequences of one-character strings. Every item file has *)
(* the extension md: a path is <<folder name, base name>>.                 *)
(***************************************************************************)
EXTENDS Integers, Sequences, FiniteSets, TLC

VARIABLES
  folders,    \* names of the folders directly under the board root
  files,      \* vault: path -> [fm: front matter, body: ast.children]
  unreadable, \* paths whose read or parse throws
  board,      \* the board handed to boardToMd / built by the load
  phase,      \* "start", "edit", "saving", "saved"
  edits,      \* number of in-memory edits made since the load
  sv,         \* position of saveAllItemsToFolders: [li, ii, expected]
  faults,     \* number of file operations made to fail so far
  thrown,     \* ids of the items whose saveItemToCorrectFolder threw
  tried,      \* ids of the items saveAllItemsToFolders has attempted
  rethrown,   \* TRUE once saveAllItemsToFolders rejected
  files0,     \* the item files of the vault when the board was loaded
  folders0,   \* the folders of the vault when the board was loaded
  ld,         \* in-flight loads (mdToBoard / reparseBoard invocations)
  smState,    \* stateManager.state
  smError,    \* TRUE once stateManager.setError was called
  pubs,       \* the setState calls made by load completions, in order
  saves       \* overlapping saves: one record per boardToMd invocation

vars == <<folders, files, unreadable, board, phase, edits, sv, faults, thrown,
          tried, rethrown, files0, folders0, ld, smState, smError, pubs,
          saves>>

(***************************************************************************)
(* Bounds.                                                                 *)
(***************************************************************************)
MaxEdits == 2
MaxFaults == 1

(***************************************************************************)
(* Characters and strings.                                                 *)
(***************************************************************************)
Letters ==
  {"a","b","c","d","e","f","g","h","i","j","k","l","m","n","o","p","q","r",
   "s","t","u","v","w","x","y","z",
   "A","B","C","D","E","F","G","H","I","J","K","L","M","N","O","P","Q","R",
   "S","T","U","V","W","X","Y","Z"}

Digits == <<"0","1","2","3","4","5","6","7","8","9">>

DigitSet == {Digits[i] : i \in 1..10}

\* JavaScript \s (the members that the model's titles use)
WhiteSpace == {" ", "\t", "\n"}

\* the characters kept by /[^a-zA-Z0-9\s-_]/g
KeptChars == Letters \cup DigitSet \cup WhiteSpace \cup {"-", "_"}

RECURSIVE TrimStart(_)
TrimStart(s) ==
  IF s # <<>> /\ Head(s) \in WhiteSpace THEN TrimStart(Tail(s)) ELSE s

RECURSIVE TrimEnd(_)
TrimEnd(s) ==
  IF s # <<>> /\ s[Len(s)] \in WhiteSpace
  THEN TrimEnd(SubSeq(s, 1, Len(s) - 1))
  ELSE s

\* String.prototype.trim
Trim(s) == TrimEnd(TrimStart(s))

IsKept(c) == c \in KeptChars

\* item.data.titleRaw.replace(/[^a-zA-Z0-9\s-_]/g, '').trim()
SanitizeTitle(t) == Trim(SelectSeq(t, IsKept))

Untitled == <<"u","n","t","i","t","l","e","d">>

\* sanitizedTitle || 'untitled'
BaseNameForTitle(t) ==
  IF SanitizeTitle(t) = <<>> THEN Untitled ELSE SanitizeTitle(t)

RECURSIVE NatToStr(_)
NatToStr(n) ==
  IF n < 10 THEN <<Digits[n + 1]>>
  ELSE NatToStr(n \div 10) \o <<Digits[(n % 10) + 1]>>

\* `${baseName}_${counter}`
Suffixed(base, k) == base \o <<"_">> \o NatToStr(k)

(***************************************************************************)
(* localeCompare: primary weights first (case folded), case as tie-break.  *)
(***************************************************************************)
LowerCase == <<"a","b","c","d","e","f","g","h","i","j","k","l","m","n","o",
               "p","q","r","s","t","u","v","w","x","y","z">>

UpperCase == <<"A","B","C","D","E","F","G","H","I","J","K","L","M","N","O",
               "P","Q","R","S","T","U","V","W","X","Y","Z">>

IsUpper(c) == \E i \in 1..26 : UpperCase[i] = c

Fold(c) ==
  IF IsUpper(c) THEN LowerCase[CHOOSE i \in 1..26 : UpperCase[i] = c] ELSE c

\* primary collation order: white space, punctuation, digits, letters
Collation == <<"\t", "\n", " ", "_", "-", "!", "#">> \o Digits \o LowerCase

Weight(c) == CHOOSE i \in 1..Len(Collation) : Collation[i] = Fold(c)

RECURSIVE PrimaryCmp(_, _)
PrimaryCmp(a, b) ==
  IF a = <<>> /\ b = <<>> THEN 0
  ELSE IF a = <<>> THEN -1
  ELSE IF b = <<>> THEN 1
  ELSE IF Weight(Head(a)) < Weight(Head(b)) THEN -1
  ELSE IF Weight(Head(a)) > Weight(Head(b)) THEN 1
  ELSE PrimaryCmp(Tail(a), Tail(b))

RECURSIVE CaseCmp(_, _)
CaseCmp(a, b) ==
  IF a = <<>> \/ b = <<>> THEN 0
  ELSE IF ~IsUpper(Head(a)) /\ IsUpper(Head(b)) THEN -1
  ELSE IF IsUpper(Head(a)) /\ ~IsUpper(Head(b)) THEN 1
  ELSE CaseCmp(Tail(a), Tail(b))

\* a.localeCompare(b)
LocaleCompare(a, b) ==
  IF PrimaryCmp(a, b) # 0 THEN PrimaryCmp(a, b) ELSE CaseCmp(a, b)

\* the sort key of a lane (data.title) or of an item (data.titleRaw)
SortKey(r) == IF "titleRaw" \in DOMAIN r THEN r.titleRaw ELSE r.title

RECURSIVE InsertStable(_, _)
InsertStable(sorted, r) ==
  IF sorted = <<>> THEN <<r>>
  ELSE IF LocaleCompare(SortKey(r), SortKey(sorted[Len(sorted)])) >= 0
       THEN Append(sorted, r)
       ELSE Append(InsertStable(SubSeq(sorted, 1, Len(sorted) - 1), r),
                   sorted[Len(sorted)])

\* Array.prototype.sort((a, b) => a.localeCompare(b)): stable
RECURSIVE SortByTitle(_)
SortByTitle(s) ==
  IF s = <<>> THEN <<>>
  ELSE InsertStable(SortByTitle(SubSeq(s, 1, Len(s) - 1)), s[Len(s)])

(***************************************************************************)
(* Front matter. A front-matter block is a function from keys to values;   *)
(* the values of `title` and `id` are character sequences, every other     *)
(* value is the string of its YAML scalar ("true", "null", "[]", ...).     *)
(***************************************************************************)
NoFile == <<>>

Without(f, k) == [x \in (DOMAIN f) \ {k} |-> f[x]]

\* !v for the scalar values of the model
Falsy(v) == v \in {"false", "null", "0", ""}

Has(fm, k) == k \in DOMAIN fm

\* frontmatter.title is truthy
HasTitle(fm) == Has(fm, "title") /\ fm["title"] # <<>>

\* completed and done tested for truthiness instead of === true
IsCompleted_Truthy(fm) ==
  \/ (Has(fm, "completed") /\ ~Falsy(fm["completed"]))
  \/ (Has(fm, "status") /\ fm["status"] = "completed")
  \/ (Has(fm, "done") /\ ~Falsy(fm["done"]))

\* frontmatter.completed === true || frontmatter.status === 'completed' ||
\* frontmatter.done === true
IsCompleted(fm) ==
  \/ (Has(fm, "completed") /\ fm["completed"] = "true")
  \/ (Has(fm, "status") /\ fm["status"] = "completed")
  \/ (Has(fm, "done") /\ fm["done"] = "true")

\* the blocks of a parsed body: a heading holds inline children
Heading(inl) == [type |-> "heading", children |-> inl]

Paragraph == [type |-> "paragraph", children |-> <<>>]

TextNode(v) == [type |-> "text", value |-> v]

Emphasis(v) == [type |-> "emphasis", value |-> v]

\* firstChild.children.map(child => child.type === 'text' ? child.value : '')
\*   .join('')
RECURSIVE HeadingText(_)
HeadingText(inl) ==
  IF inl = <<>> THEN <<>>
  ELSE (IF Head(inl).type = "text" THEN Head(inl).value ELSE <<>>)
       \o HeadingText(Tail(inl))

\* title of loadItemFromFile: frontmatter.title || basename, replaced by the
\* text of ast.children[0] when there is no front-matter title and that
\* first block is a heading
DerivedTitle(path, c) ==
  IF HasTitle(c.fm) THEN c.fm["title"]
  ELSE IF c.body # <<>> /\ c.body[1].type = "heading"
       THEN HeadingText(c.body[1].children)
  ELSE path[2]

\* loadItemFromFile(itemFile, content), for a file that parses
loadItemFromFile(path, c) ==
  [ id        |-> path,
    checked   |-> IsCompleted(c.fm),
    checkChar |-> IF IsCompleted(c.fm) THEN "x" ELSE " ",
    titleRaw  |-> DerivedTitle(path, c),
    metadata  |-> Without(c.fm, "file"),
    file      |-> path,
    parent_id |-> IF Has(c.fm, "parent_id") /\ ~Falsy(c.fm["parent_id"])
                  THEN c.fm["parent_id"] ELSE "null" ]

\* newItem(content, checkChar)
newItem(id, content, checkChar) ==
  [ id        |-> id,
    checked   |-> (checkChar = "x"),
    checkChar |-> checkChar,
    titleRaw  |-> content,
    metadata  |-> <<>>,
    file      |-> NoFile,
    parent_id |-> "null" ]

OrDefault(fm, k, d) ==
  IF Has(fm, k) /\ ~Falsy(fm[k]) THEN fm ELSE (k :> d) @@ fm

\* generateItemFileContent without `delete frontmatter.completed`
generateItemFileContent_KeepsCompleted(item) ==
  LET copy == item.metadata
      done == IF item.checkChar = "x"
              THEN ("completed" :> "true") @@ copy
              ELSE copy
      par  == ("parent_id" :>
                 (IF Falsy(item.parent_id) THEN "null" ELSE item.parent_id))
              @@ done
      lists == OrDefault(OrDefault(par, "aliases", "[]"), "tags", "[]")
      idv  == IF item.file # NoFile THEN item.file[2]
              ELSE BaseNameForTitle(item.titleRaw)
  IN  [fm |-> ("id" :> idv) @@ lists, body |-> <<>>]

\* the front matter written by generateItemFileContent(item)
generateItemFileContent(item) ==
  LET copy == item.metadata
      done == IF item.checkChar = "x"
              THEN ("completed" :> "true") @@ copy
              ELSE Without(copy, "completed")
      par  == ("parent_id" :>
                 (IF Falsy(item.parent_id) THEN "null" ELSE item.parent_id))
              @@ done
      lists == OrDefault(OrDefault(par, "aliases", "[]"), "tags", "[]")
      idv  == IF item.file # NoFile THEN item.file[2]
              ELSE BaseNameForTitle(item.titleRaw)
  IN  [fm |-> ("id" :> idv) @@ lists, body |-> <<>>]

(***************************************************************************)
(* Hydration (load path).                                                  *)
(***************************************************************************)
Perms(S) ==
  {q \in [1..Cardinality(S) -> S] :
     \A i, j \in 1..Cardinality(S) : q[i] = q[j] => i = j}

\* the .md files directly in folder d of vault F
FilesIn(F, d) == {p \in DOMAIN F : p[1] = d}

\* boardFolder.children: the column folders and the board file itself
RootChildren(D) ==
  {[kind |-> "folder", name |-> d] : d \in D}
    \cup {[kind |-> "file", name |-> <<"b","o","a","r","d">>]}

\* the earlier rule (README, Automatic Detection): some folder of the root
\* contains an .md file
hasFolderStructure_NeedsMarkdown(D) == \E d \in D : FilesIn(files, d) # {}

\* hasFolderStructure accepts every root
hasFolderStructure_Always(D) == TRUE

\* hasFolderStructure(boardFolder): some child of the root is a folder
hasFolderStructure(D) == \E child \in RootChildren(D) : child.kind = "folder"

\* boardFolder.children.filter(child => child instanceof TFolder)
columnFolders(D) == {child.name : child \in {c \in RootChildren(D) : c.kind = "folder"}}

\* loadColumn(columnFolder), the folder's children listed in order `listing`
loadColumn(d, listing, F, U) ==
  LET parsed == SelectSeq(listing, LAMBDA p : p \notin U)
      items  == [i \in 1..Len(parsed) |->
                   loadItemFromFile(parsed[i], F[parsed[i]])]
  IN  [id |-> d, title |-> d, children |-> SortByTitle(items)]

\* loadFromFolderStructure: the root's folders listed in order `dirs`, the
\* children of folder d in order listing[d]
loadFromFolderStructure(dirs, listing, F, U) ==
  SortByTitle([i \in 1..Len(dirs) |->
                 loadColumn(dirs[i], listing[dirs[i]], F, U)])

\* the directory listings the vault can return
Listings(F, D) ==
  {l \in [D -> UNION {Perms(FilesIn(F, d)) : d \in D}] :
     \A d \in D : l[d] \in Perms(FilesIn(F, d))}

(***************************************************************************)
(* Save path: one item.                                                    *)
(***************************************************************************)
\* vault.getAbstractFileByPath(path) is not null
Exists(F, p) == p \in DOMAIN F

\* the first of base, base_1, base_2, ... that names no file of folder d
\* (createNewItemFile's probe loop)
UniqueBase(F, d, base) ==
  IF ~Exists(F, <<d, base>>) THEN base
  ELSE Suffixed(base,
         CHOOSE k \in 1..(Cardinality(DOMAIN F) + 1) :
           /\ ~Exists(F, <<d, Suffixed(base, k)>>)
           /\ \A j \in 1..(k - 1) : Exists(F, <<d, Suffixed(base, j)>>))

\* a move that keeps the file's name whether or not the target has it
MoveTargetBase_KeepsName(F, d, base) == base

\* the base name moveItemToNewColumn renames to: the file's own name, or on
\* a collision base_1, base_2, ...
MoveTargetBase(F, d, base) ==
  IF ~Exists(F, <<d, base>>) THEN base
  ELSE Suffixed(base,
         CHOOSE k \in 1..(Cardinality(DOMAIN F) + 1) :
           /\ ~Exists(F, <<d, Suffixed(base, k)>>)
           /\ \A j \in 1..(k - 1) : Exists(F, <<d, Suffixed(base, j)>>))

Put(F, p, c) == (p :> c) @@ F

Remove(F, p) == [q \in (DOMAIN F) \ {p} |-> F[q]]

\* the outcome of one file operation sequence: the vault afterwards, the
\* item's back-reference afterwards, whether it threw, and whether the
\* injected fault was reached
Outcome(F, D, file, ok, hit) ==
  [files |-> F, folders |-> D, file |-> file, ok |-> ok, hit |-> hit]

\* updateItemFileContent(item, file): vault.modify
updateItemFileContent(item, F, D, fault) ==
  IF fault = "write" THEN Outcome(F, D, item.file, FALSE, TRUE)
  ELSE IF ~Exists(F, item.file) THEN Outcome(F, D, item.file, FALSE, FALSE)
  ELSE Outcome(Put(F, item.file, generateItemFileContent(item)), D,
               item.file, TRUE, FALSE)

\* moveItemToNewColumn(item, existingFile, newColumnName)
moveItemToNewColumn(item, col, F, D, fault) ==
  IF col \notin D /\ fault = "mkdir"
  THEN Outcome(F, D, item.file, FALSE, TRUE)
  ELSE
    LET D1   == D \cup {col}
        dest == <<col, MoveTargetBase(F, col, item.file[2])>>
    IN  IF fault = "rename" THEN Outcome(F, D1, item.file, FALSE, TRUE)
        ELSE IF ~Exists(F, item.file)
        THEN Outcome(F, D1, item.file, FALSE, FALSE)
        ELSE
          LET F1    == Put(Remove(F, item.file), dest, F[item.file])
              moved == [item EXCEPT !.file = dest]
          IN  updateItemFileContent(moved, F1, D1, fault)

\* createNewItemFile(item, columnName)
createNewItemFile(item, col, F, D, fault) ==
  IF col \notin D /\ fault = "mkdir"
  THEN Outcome(F, D, NoFile, FALSE, TRUE)
  ELSE
    LET D1   == D \cup {col}
        path == <<col, UniqueBase(F, col, BaseNameForTitle(item.titleRaw))>>
    IN  IF fault = "write" THEN Outcome(F, D1, NoFile, FALSE, TRUE)
        ELSE Outcome(Put(F, path, generateItemFileContent(item)), D1,
                     path, TRUE, FALSE)

\* saveItemToCorrectFolder(item, newColumnName)
saveItemToCorrectFolder(item, col, F, D, fault) ==
  IF item.file # NoFile
  THEN IF item.file[1] = col
       THEN updateItemFileContent(item, F, D, fault)
       ELSE moveItemToNewColumn(item, col, F, D, fault)
  ELSE createNewItemFile(item, col, F, D, fault)

\* cleanupColumnFolder: the files it deletes
filesToRemove(F, D, col, expected) ==
  IF col \notin D THEN {}
  ELSE {p \in FilesIn(F, col) : p[2] \notin expected}

(***************************************************************************)
(* The vaults and the in-memory edits the model explores.                  *)
(***************************************************************************)
ColA == <<"A">>
ColB == <<"B">>
ColC == <<"C">>

\* column titles: the folders of the initial vault are among ColA, ColB
Titles == {ColA, ColB, ColC}

FileT == <<"t">>
FileX == <<"x">>

\* the item files an initial vault may hold
InitPaths == {<<ColA, FileT>>, <<ColA, FileX>>, <<ColB, FileT>>}

Plain == [fm |-> ("prio" :> "high"), body |-> <<>>]

\* the contents the file A/t.md may have in the initial vault
ContentsOfT ==
  { Plain,
    [fm |-> ("completed" :> "false") @@ ("id" :> <<"z">>)
            @@ ("file" :> "f"),
     body |-> <<>>],
    [fm |-> ("status" :> "completed") @@ ("parent_id" :> "p1")
            @@ ("tags" :> "[a]"),
     body |-> <<>>] }

InitContent(p, c) == IF p = <<ColA, FileT>> THEN c ELSE Plain

\* the titles typed for new items
NewTitles ==
  { <<"t">>,
    <<"M","y"," ","T","a","s","k","!","!">>,
    <<"a","\n","b">> }

\* generateInstanceId() of the n-th item created in memory
NewId(n) == << <<>>, <<"#">> \o NatToStr(n) >>

LaneTitles(b) == {b[i].title : i \in 1..Len(b)}

RemoveAt(q, i) == SubSeq(q, 1, i - 1) \o SubSeq(q, i + 1, Len(q))

ItemsOf(b) ==
  UNION {{b[l].children[i] : i \in 1..Len(b[l].children)} : l \in 1..Len(b)}

ItemIds(b) == {it.id : it \in ItemsOf(b)}

\* the lane holding the item with this id (0 if none)
LaneOf(b, id) ==
  IF \E l \in 1..Len(b) : \E i \in 1..Len(b[l].children) :
       b[l].children[i].id = id
  THEN CHOOSE l \in 1..Len(b) : \E i \in 1..Len(b[l].children) :
         b[l].children[i].id = id
  ELSE 0

ItemById(b, id) == CHOOSE it \in ItemsOf(b) : it.id = id

(***************************************************************************)
(* Initial state: a vault, and no board loaded yet.                        *)
(***************************************************************************)
NoSave == [li |-> 0, ii |-> 0, expected |-> {}]

\* stateManager.state before any board was installed
NoState == [set |-> FALSE, children |-> <<>>, by |-> 0]

InitVault ==
  /\ folders \in SUBSET {ColA, ColB}
  /\ \E P \in SUBSET {p \in InitPaths : p[1] \in folders} :
     \E c \in ContentsOfT :
       files = [p \in P |-> InitContent(p, c)]
  /\ unreadable \in {U \in SUBSET (DOMAIN files) :
                       U \subseteq {<<ColB, FileT>>}}

Init ==
  /\ InitVault
  /\ board = <<>>
  /\ phase = "start"
  /\ edits = 0
  /\ sv = NoSave
  /\ faults = 0
  /\ thrown = {}
  /\ tried = {}
  /\ rethrown = FALSE
  /\ files0 = files
  /\ folders0 = folders
  /\ ld = <<>>
  /\ smState = NoState
  /\ smError = FALSE
  /\ pubs = <<>>
  /\ saves = <<>>

loadVars == <<ld, smState, smError, pubs>>

saveVars == <<sv, faults, thrown, tried, rethrown, saves>>

(***************************************************************************)
(* Load: the board is hydrated from the vault and installed.               *)
(***************************************************************************)
Load ==
  /\ phase = "start"
  /\ hasFolderStructure(folders)
  /\ \E dirs \in Perms(columnFolders(folders)) : \E listing \in Listings(files, folders) :
       board' = loadFromFolderStructure(dirs, listing, files, unreadable)
  /\ phase' = "edit"
  /\ UNCHANGED <<folders, files, unreadable, edits, files0, folders0, saveVars, loadVars>>

\* loadBoardAsync throws 'No folder structure found for board'
LoadFails ==
  /\ phase = "start"
  /\ ~hasFolderStructure(folders)
  /\ phase' = "failed"
  /\ smError' = TRUE
  /\ UNCHANGED <<folders, files, unreadable, board, edits, files0, folders0, saveVars,
                 ld, smState, pubs>>

(***************************************************************************)
(* In-memory edits of the loaded board.                                    *)
(***************************************************************************)
Edited(b) ==
  /\ board' = b
  /\ edits' = edits + 1
  /\ UNCHANGED <<folders, files, unreadable, phase, files0, folders0, saveVars, loadVars>>

CanEdit == phase = "edit" /\ edits < MaxEdits

\* an item is dragged from lane l to the end of lane l2
MoveItem ==
  /\ CanEdit
  /\ \E l \in 1..Len(board) : \E i \in 1..Len(board[l].children) :
     \E l2 \in (1..Len(board)) \ {l} :
       Edited([board EXCEPT
                 ![l].children = RemoveAt(@, i),
                 ![l2].children = Append(@, board[l].children[i])])

\* an item is deleted from its lane
RemoveItem ==
  /\ CanEdit
  /\ \E l \in 1..Len(board) : \E i \in 1..Len(board[l].children) :
       Edited([board EXCEPT ![l].children = RemoveAt(@, i)])

\* a task is added: newItem(content, ' ') appended to a lane
AddItem ==
  /\ CanEdit
  /\ \E l \in 1..Len(board) : \E t \in NewTitles :
       Edited([board EXCEPT
                 ![l].children = Append(@, newItem(NewId(edits + 1), t, " "))])

\* a lane's title is changed to a title no other lane has
RenameLane ==
  /\ CanEdit
  /\ \E l \in 1..Len(board) : \E t \in Titles \ LaneTitles(board) :
       Edited([board EXCEPT ![l].title = t])

\* a lane is deleted with its items
RemoveLane ==
  /\ CanEdit
  /\ \E l \in 1..Len(board) : Edited(RemoveAt(board, l))

\* an empty lane is appended
AddLane ==
  /\ CanEdit
  /\ \E t \in Titles \ LaneTitles(board) :
       Edited(Append(board, [id |-> NewId(edits + 1)[2], title |-> t,
                             children |-> <<>>]))

(***************************************************************************)
(* Save: boardToMd -> saveBoardStructure -> saveAllItemsToFolders.         *)
(***************************************************************************)
\* boardToMd(board): starts saveAllItemsToFolders without awaiting it
BoardToMd ==
  /\ phase = "edit"
  /\ phase' = IF Len(board) = 0 THEN "saved" ELSE "saving"
  /\ sv' = [li |-> 1, ii |-> 1, expected |-> {}]
  /\ UNCHANGED <<folders, files, unreadable, board, edits, faults, thrown,
                 tried, rethrown, files0, folders0, loadVars, saves>>

\* the item loop without its try/catch: the first throw rejects the save
AfterItemThrow_Propagates == [phase |-> "failed", rethrown |-> TRUE]

\* catch (error) { console.error(...) } around one item's save: the loop
\* goes on with the next item and nothing is thrown further
AfterItemThrow == [phase |-> "saving", rethrown |-> FALSE]

FaultKinds == {"none", "mkdir", "rename", "write"}

\* one turn of the inner loop of saveAllItemsToFolders: the item is saved,
\* its file name is recorded as expected, a throw is caught and logged
SaveItemStep ==
  /\ phase = "saving"
  /\ sv.ii <= Len(board[sv.li].children)
  /\ LET lane == board[sv.li]
         item == lane.children[sv.ii]
     IN  \E fault \in FaultKinds :
           LET r == saveItemToCorrectFolder(item, lane.title, files, folders,
                                            fault)
           IN  /\ fault # "none" => (faults < MaxFaults /\ r.hit)
               /\ files' = r.files
               /\ folders' = r.folders
               /\ board' = [board EXCEPT ![sv.li].children[sv.ii].file = r.file]
               /\ faults' = IF fault = "none" THEN faults ELSE faults + 1
               /\ thrown' = IF r.ok THEN thrown ELSE thrown \cup {item.id}
               /\ tried' = tried \cup {item.id}
               /\ sv' = [sv EXCEPT
                           !.ii = @ + 1,
                           !.expected = IF r.ok /\ r.file # NoFile
                                        THEN @ \cup {r.file[2]} ELSE @]
               /\ phase' = IF r.ok THEN "saving" ELSE AfterItemThrow.phase
               /\ rethrown' = (rethrown \/ (~r.ok /\ AfterItemThrow.rethrown))
               /\ smError' = (smError \/ (~r.ok /\ AfterItemThrow.rethrown))
  /\ UNCHANGED <<unreadable, edits, files0, folders0, ld, smState, pubs,
                 saves>>

RECURSIVE RemoveAll(_, _)
RemoveAll(F, P) ==
  IF P = {} THEN F
  ELSE LET p == CHOOSE q \in P : TRUE IN RemoveAll(Remove(F, p), P \ {p})

\* cleanupColumnFolder(columnName, expectedFiles), then the next lane; a
\* vault.delete that throws is caught and the file stays
CleanupStep ==
  /\ phase = "saving"
  /\ sv.ii > Len(board[sv.li].children)
  /\ LET gone == filesToRemove(files, folders, board[sv.li].title, sv.expected)
     IN  \E kept \in SUBSET gone :
           /\ Cardinality(kept) <= MaxFaults - faults
           /\ files' = RemoveAll(files, gone \ kept)
           /\ faults' = faults + Cardinality(kept)
  /\ sv' = [li |-> sv.li + 1, ii |-> 1, expected |-> {}]
  /\ phase' = IF sv.li = Len(board) THEN "saved" ELSE "saving"
  /\ UNCHANGED <<folders, unreadable, board, edits, thrown, tried, rethrown,
                 files0, folders0, loadVars, saves>>

Next ==
  \/ Load
  \/ LoadFails
  \/ MoveItem
  \/ RemoveItem
  \/ AddItem
  \/ RenameLane
  \/ RemoveLane
  \/ AddLane
  \/ BoardToMd
  \/ SaveItemStep
  \/ CleanupStep

Spec == Init /\ [][Next]_vars

(***************************************************************************)
(* Properties of the save path.                                            *)
(***************************************************************************)
Saved == phase = "saved"

\* the item hydrated from path p is in the board, in the lane titled t
HeldBy(p, t) ==
  /\ p \in ItemIds(board)
  /\ board[LaneOf(board, p)].title = t

FileOf(id) == ItemById(board, id).file

\* the item of X/t.md was moved to lane Y, whose folder holds the t.md of
\* another item, and nothing else was edited
MovedOnto(X, Y) ==
  /\ X # Y
  /\ edits = 1
  /\ {<<X, FileT>>, <<Y, FileT>>} \subseteq (DOMAIN files0) \ unreadable
  /\ HeldBy(<<X, FileT>>, Y)
  /\ HeldBy(<<Y, FileT>>, Y)

MovedWithSuffix(X, Y) ==
  /\ FileOf(<<X, FileT>>) = <<Y, Suffixed(FileT, 1)>>
  /\ Exists(files, <<Y, Suffixed(FileT, 1)>>)
  /\ ~Exists(files, <<X, FileT>>)
  /\ Exists(files, <<Y, FileT>>)
  /\ FileOf(<<Y, FileT>>) = <<Y, FileT>>

\* C1: after a save without I/O failure, an item moved from X/t.md into a
\* lane Y whose folder already holds another item's t.md is backed by
\* Y/t_1.md, X/t.md is gone and Y/t.md still backs the other item, whatever
\* the order of the lanes X and Y in the board.
C1_MoveWithCollision ==
  \A X, Y \in {ColA, ColB} :
    (Saved /\ faults = 0 /\ MovedOnto(X, Y)) => MovedWithSuffix(X, Y)

\* the same move when the source lane comes after the target lane
C1_MoveToEarlierLane ==
  (Saved /\ faults = 0 /\ MovedOnto(ColB, ColA)) => MovedWithSuffix(ColB, ColA)

C1_ReachedEarlier == Saved /\ faults = 0 /\ MovedOnto(ColB, ColA)

\* the item is backed by an existing file in the folder of the lane titled t
PlacedIn(it, t) ==
  /\ it.file # NoFile
  /\ Exists(files, it.file)
  /\ it.file[1] = t

ChildrenOf(lane) == {lane.children[i] : i \in 1..Len(lane.children)}

LanesOf(b) == {b[l] : l \in 1..Len(b)}

\* C2: after a save in which no file operation failed, every item of the
\* board has a back-reference to an existing file in the folder named by
\* the title of its lane.
C2_PostSavePlacement ==
  (Saved /\ faults = 0) =>
    \A lane \in LanesOf(board) : \A it \in ChildrenOf(lane) :
      PlacedIn(it, lane.title)

\* the placement holds for the items whose save did not throw
C2_PlacedUnlessThrown ==
  (Saved /\ faults = 0) =>
    \A lane \in LanesOf(board) : \A it \in ChildrenOf(lane) :
      it.id \notin thrown => PlacedIn(it, lane.title)

\* C3: after a save, the .md files in the folder of every lane of the board
\* are exactly the files backing the items of that lane.
C3_OrphanCleanup ==
  (Saved /\ faults = 0) =>
    \A lane \in LanesOf(board) :
      FilesIn(files, lane.title) = {it.file : it \in ChildrenOf(lane)}

\* the same when no item's save threw
C3_ExactUnlessThrown ==
  (Saved /\ faults = 0 /\ thrown = {}) =>
    \A lane \in LanesOf(board) :
      FilesIn(files, lane.title) = {it.file : it \in ChildrenOf(lane)}

\* the paths of the items hydrated by the load
Hydrated == (DOMAIN files0) \ unreadable

\* C4: every item hydrated from a file and absent from the board at save
\* time has its file deleted by the save, whether the item was removed from
\* a lane or its whole lane was removed.
C4_ItemDestruction ==
  (Saved /\ faults = 0) =>
    \A p \in Hydrated : p \notin ItemIds(board) => ~Exists(files, p)

\* the same for the items whose folder still names a lane of the board
C4_DestroyedInKeptLane ==
  (Saved /\ faults = 0) =>
    \A p \in Hydrated :
      (p \notin ItemIds(board) /\ p[1] \in LaneTitles(board))
        => ~Exists(files, p)

(***************************************************************************)
(* Round trip of a board that was not edited.                              *)
(***************************************************************************)
\* the two blocks agree on every key outside `keys`
SameExcept(old, new, keys) ==
  \A k \in ((DOMAIN old) \cup (DOMAIN new)) \ keys :
    /\ k \in DOMAIN old
    /\ k \in DOMAIN new
    /\ old[k] = new[k]

RoundTrip == Saved /\ edits = 0 /\ faults = 0

Normalised == {"id", "completed", "parent_id", "aliases", "tags", "file"}

\* the value written for a defaulted key
Defaulted(old, new, k, d) ==
  /\ k \in DOMAIN new
  /\ new[k] = IF Has(old, k) /\ ~Falsy(old[k]) THEN old[k] ELSE d

SpecKeptChars == Letters \cup DigitSet \cup {" ", "_", "-"}

IsSpecKept(c) == c \in SpecKeptChars

SpecBaseName(t) ==
  IF Trim(SelectSeq(t, IsSpecKept)) = <<>> THEN Untitled
  ELSE Trim(SelectSeq(t, IsSpecKept))

IsNew(it) == it.id[1] = <<>>

\* the new items saved first into a lane whose folder did not exist
CreatedInFreshFolder ==
  {<<lane.title, lane.children[1]>> :
     lane \in {l \in LanesOf(board) :
                 /\ l.title \notin folders0
                 /\ l.children # <<>>
                 /\ IsNew(l.children[1])}}

\* C6: a new item saved into a lane whose folder does not exist gets the
\* folder created and a file named by its title stripped of every character
\* outside [A-Za-z0-9 _-] and trimmed ("untitled" if empty), with `id`
\* equal to that base name.
C6_NewItemCreation ==
  (Saved /\ faults = 0) =>
    \A c \in CreatedInFreshFolder :
      /\ c[1] \in folders
      /\ c[2].file = <<c[1], SpecBaseName(c[2].titleRaw)>>
      /\ Exists(files, c[2].file)
      /\ files[c[2].file].fm["id"] = SpecBaseName(c[2].titleRaw)

\* the same with the characters the code keeps: [a-zA-Z0-9\s_-]
C6_CreatedWithCodeName ==
  (Saved /\ faults = 0) =>
    \A c \in CreatedInFreshFolder :
      /\ c[1] \in folders
      /\ c[2].file = <<c[1], BaseNameForTitle(c[2].titleRaw)>>
      /\ Exists(files, c[2].file)
      /\ files[c[2].file].fm["id"] = BaseNameForTitle(c[2].titleRaw)

(***************************************************************************)
(* Failure of one item's file operation.                                   *)
(***************************************************************************)
\* C7: a throw in one item's save is caught: the save is never rejected, it
\* attempts every item of every lane, and every item whose own save did not
\* throw is backed by an existing file in its lane's folder at the end.
C7_FanOutResilience ==
  /\ ~rethrown
  /\ Saved =>
       /\ tried = ItemIds(board)
       /\ \A lane \in LanesOf(board) : \A it \in ChildrenOf(lane) :
            it.id \notin thrown => PlacedIn(it, lane.title)

\* a save in which an injected failure hit one item while a sibling in the
\* same lane and an item of another lane were saved
C7_Witness ==
  /\ Saved
  /\ faults = 1
  /\ \E l1, l2 \in 1..Len(board) : \E a, b \in ChildrenOf(board[l1]) :
     \E c \in ChildrenOf(board[l2]) :
       /\ l1 # l2
       /\ a.id \in thrown
       /\ b.id \notin thrown
       /\ PlacedIn(b, board[l1].title)
       /\ PlacedIn(c, board[l2].title)

(***************************************************************************)
(* Renamed lanes.                                                          *)
(***************************************************************************)
\* the lanes loaded from a folder and retitled since
Renamed(b) == {l \in LanesOf(b) : l.id \in folders0 /\ l.title # l.id}

\* C8: after the save every file backing an item of a retitled lane lies in
\* the folder named by the new title, not in the folder it was loaded from.
C8_ColumnRename ==
  (Saved /\ faults = 0) =>
    \A lane \in Renamed(board) : \A it \in ChildrenOf(lane) :
      it.id[1] = lane.id =>
        /\ PlacedIn(it, lane.title)
        /\ lane.title \in folders

\* the same when the retitling is the only edit
C8_SingleRename ==
  (Saved /\ faults = 0 /\ edits = 1) =>
    \A lane \in Renamed(board) : \A it \in ChildrenOf(lane) :
      it.id[1] = lane.id =>
        /\ PlacedIn(it, lane.title)
        /\ lane.title \in folders

(***************************************************************************)
(* Two-phase load: mdToBoard / reparseBoard return a placeholder and start *)
(* the hydration; its completion is published by the promise callbacks.    *)
(* A load record is one invocation:                                        *)
(*   kind     "mdToBoard" or "reparseBoard"                                *)
(*   root     whether getBoardFolder() returned a folder                   *)
(*   ret      the lanes of the board returned synchronously                *)
(*   pc       "read" (reloadBoardAsync awaits vault.read), "columns" (the   *)
(*            loop of loadFromFolderStructure), "rejected", "settled"      *)
(*   todo     the column folders still to load, lanes: board.children      *)
(*   outcome  what the callbacks did: "setState", "setError", "dropped"    *)
(***************************************************************************)
MaxLoads == 2

\* the board returned synchronously: children: []
PlaceholderLanes == <<>>

NewLoad(kind, root, pc, dirs) ==
  [kind |-> kind, root |-> root, ret |-> PlaceholderLanes, pc |-> pc,
   todo |-> dirs, lanes |-> <<>>, outcome |-> "pending", installed |-> FALSE]

otherVars == <<board, phase, edits, sv, faults, thrown, tried, rethrown,
               files0, folders0, saves>>

\* getBoardFolder(): boardFile.parent, a folder or null
RootResolved == BOOLEAN

\* if (boardFolder) { if (this.hasFolderStructure(boardFolder)) ... }
\* and  if (boardFolder && this.hasFolderStructure(boardFolder))
CanHydrate(root, D) == root /\ hasFolderStructure(D)

\* mdToBoard(md): loadBoardAsync runs up to its first await
MdToBoard ==
  /\ Len(ld) < MaxLoads
  /\ \E root \in RootResolved :
       IF CanHydrate(root, folders)
       THEN \E dirs \in Perms(columnFolders(folders)) :
              ld' = Append(ld, NewLoad("mdToBoard", root, "columns", dirs))
       ELSE ld' = Append(ld, NewLoad("mdToBoard", root, "rejected", <<>>))
  /\ UNCHANGED <<folders, files, unreadable, smState, smError, pubs, otherVars>>

\* reparseBoard(): reloadBoardAsync runs up to await vault.read(boardFile)
ReparseBoard ==
  /\ Len(ld) < MaxLoads
  /\ \E root \in RootResolved :
       IF CanHydrate(root, folders)
       THEN ld' = Append(ld, NewLoad("reparseBoard", root, "read", <<>>))
       ELSE ld' = Append(ld, NewLoad("reparseBoard", root, "rejected", <<>>))
  /\ UNCHANGED <<folders, files, unreadable, smState, smError, pubs, otherVars>>

\* vault.read(boardFile) completes, or throws; then loadFromFolderStructure
\* lists the column folders
ReparseRead(k) ==
  /\ ld[k].pc = "read"
  /\ \/ \E dirs \in Perms(columnFolders(folders)) :
          ld' = [ld EXCEPT ![k].pc = "columns", ![k].todo = dirs]
     \/ ld' = [ld EXCEPT ![k].pc = "rejected"]
  /\ UNCHANGED <<folders, files, unreadable, smState, smError, pubs, otherVars>>

\* one turn of `for (const columnFolder of columnFolders)`
LoadColumnStep(k) ==
  /\ ld[k].pc = "columns"
  /\ ld[k].todo # <<>>
  /\ \E listing \in Perms(FilesIn(files, Head(ld[k].todo))) :
       ld' = [ld EXCEPT
                ![k].todo = Tail(@),
                ![k].lanes = Append(@, loadColumn(Head(ld[k].todo), listing,
                                                  files, unreadable))]
  /\ UNCHANGED <<folders, files, unreadable, smState, smError, pubs, otherVars>>

\* the board is returned from inside the column loop
ReadyToResolve_InsideLoop(l) == l.pc = "columns" /\ l.lanes # <<>>

\* the column loop has ended: the board is sorted and returned
ReadyToResolve(l) == l.pc = "columns" /\ l.todo = <<>>

\* if (this.stateManager.state)
StateInstalled(st) == st.set

\* .then(loadedBoard => { if (this.stateManager.state) setState(...) })
LoadResolved(k) ==
  /\ ReadyToResolve(ld[k])
  /\ LET loaded == SortByTitle(ld[k].lanes)
     IN  IF StateInstalled(smState)
         THEN /\ smState' = [set |-> TRUE, children |-> loaded, by |-> k]
              /\ pubs' = Append(pubs, [by |-> k, children |-> loaded])
              /\ ld' = [ld EXCEPT ![k].pc = "settled",
                                  ![k].outcome = "setState"]
         ELSE /\ ld' = [ld EXCEPT ![k].pc = "settled",
                                  ![k].outcome = "dropped"]
              /\ UNCHANGED <<smState, pubs>>
  /\ UNCHANGED <<folders, files, unreadable, smError, otherVars>>

\* .catch(error => { this.stateManager.setError(error) })
LoadRejected(k) ==
  /\ ld[k].pc = "rejected"
  /\ smError' = TRUE
  /\ ld' = [ld EXCEPT ![k].pc = "settled", ![k].outcome = "setError"]
  /\ UNCHANGED <<folders, files, unreadable, smState, pubs, otherVars>>

\* the caller of mdToBoard / reparseBoard installs the board it was returned
CallerInstalls(k) ==
  /\ ~ld[k].installed
  /\ smState' = [set |-> TRUE, children |-> ld[k].ret, by |-> 0]
  /\ ld' = [ld EXCEPT ![k].installed = TRUE]
  /\ UNCHANGED <<folders, files, unreadable, smError, pubs, otherVars>>

InitLoad ==
  /\ InitVault
  /\ board = <<>>
  /\ phase = "start"
  /\ edits = 0
  /\ sv = NoSave
  /\ faults = 0
  /\ thrown = {}
  /\ tried = {}
  /\ rethrown = FALSE
  /\ files0 = files
  /\ folders0 = folders
  /\ ld = <<>>
  /\ smState = NoState
  /\ smError = FALSE
  /\ pubs = <<>>
  /\ saves = <<>>

NextLoad ==
  \/ MdToBoard
  \/ ReparseBoard
  \/ \E k \in 1..Len(ld) : ReparseRead(k)
  \/ \E k \in 1..Len(ld) : LoadColumnStep(k)
  \/ \E k \in 1..Len(ld) : LoadResolved(k)
  \/ \E k \in 1..Len(ld) : LoadRejected(k)
  \/ \E k \in 1..Len(ld) : CallerInstalls(k)

SpecLoad == InitLoad /\ [][NextLoad]_vars

\* the boards a complete hydration of the vault can produce
FullBoards ==
  {loadFromFolderStructure(dirs, listing, files, unreadable) :
     dirs \in Perms(columnFolders(folders)), listing \in Listings(files, folders)}

\* C9: mdToBoard and reparseBoard return a board with zero columns, and
\* every board they install afterwards is the complete hydration (one lane
\* per column folder, sorted), installed at most once per invocation.
C9_TwoPhasePublish ==
  /\ \A k \in 1..Len(ld) : ld[k].ret = <<>>
  /\ \A i \in 1..Len(pubs) :
       /\ pubs[i].children \in FullBoards
       /\ LaneTitles(pubs[i].children) = folders
       /\ \A j \in 1..Len(pubs) : pubs[i].by = pubs[j].by => i = j
  /\ (smState.set /\ smState.by # 0) => smState.children \in FullBoards

\* a load of a vault with two column folders has published its board
C9_Witness ==
  /\ Len(pubs) > 0
  /\ Len(pubs[1].children) = 2
  /\ smState.children = pubs[Len(pubs)].children

\* C10: every load that has settled published: it called setState with the
\* hydrated board or setError.
C10_LoadPublishes ==
  \A k \in 1..Len(ld) :
    ld[k].pc = "settled" => ld[k].outcome \in {"setState", "setError"}

\* the hydrated board is published when a state is installed at that time
C10_PublishedWhenInstalled ==
  [][\A k \in 1..Len(ld) :
       (ReadyToResolve(ld[k]) /\ smState.set /\ ld'[k].pc = "settled")
         => ld'[k].outcome = "setState"]_vars

\* the invocations that find no root folder or no column folder in it
StructurallyAbsent(l) == ~l.root \/ folders = {}

\* C11: an invocation of mdToBoard or reparseBoard that finds no root folder
\* or no column folder under it never hydrates: its promise is rejected, its
\* completion calls setError, and no setState is made for it.
C11_StructuralAbsence ==
  \A k \in 1..Len(ld) :
    StructurallyAbsent(ld[k]) =>
      /\ ld[k].pc \in {"rejected", "settled"}
      /\ ld[k].lanes = <<>>
      /\ ld[k].pc = "settled" => (ld[k].outcome = "setError" /\ smError)
      /\ \A i \in 1..Len(pubs) : pubs[i].by # k

\* both kinds of invocation have failed on a root without column folders
C11_Witness ==
  /\ folders = {}
  /\ Len(ld) = 2
  /\ ld[1].kind # ld[2].kind
  /\ \A k \in 1..2 : ld[k].root /\ ld[k].outcome = "setError"
  /\ smError /\ pubs = <<>>

(***************************************************************************)
(* Layout detection.                                                       *)
(***************************************************************************)
\* the load went on to hydrate a board / the load failed
Detected == phase \notin {"start", "failed"}

NotDetected == phase = "failed" /\ board = <<>>

JustLoaded == phase = "edit" /\ edits = 0

C13_ReadmeDetection ==
  /\ Detected => \E d \in folders0 : FilesIn(files0, d) # {}
  /\ (\A d \in folders0 : FilesIn(files0, d) = {}) => ~Detected

(***************************************************************************)
(* One item file: loadItemFromFile and generateItemFileContent applied to  *)
(* the contents a task file can have. The vault is the folder A with the   *)
(* file A/t.md; the board is hydrated from it and saved.                   *)
(***************************************************************************)
Foo == <<"F","o","o">>

Bar == <<"B","a","r">>

\* a quoted YAML scalar: the string 'true', not the boolean
QuotedTrue == "'true'"

Optional(k, vals) == {<<>>} \cup {(k :> v) : v \in vals}

\* the front matters of the file
ItemFrontMatters ==
  { c @@ s @@ d @@ t :
      c \in Optional("completed", {"true", "false", QuotedTrue}),
      s \in Optional("status", {"completed", "Completed"}),
      d \in Optional("done", {"true", QuotedTrue}),
      t \in Optional("title", {Foo, <<>>}) }

\* the parsed bodies of the file (ast.children)
ItemBodies ==
  { <<>>,
    <<Heading(<<TextNode(Bar)>>)>>,
    <<Paragraph, Heading(<<TextNode(Bar)>>)>>,
    <<Heading(<<TextNode(<<"B">>), Emphasis(<<"a">>), TextNode(<<"r">>)>>)>> }

ItemContents == [fm : ItemFrontMatters, body : ItemBodies]

InitItem ==
  /\ folders = {ColA}
  /\ \E c \in ItemContents : files = (<<ColA, FileT>> :> c)
  /\ unreadable = {}
  /\ board = <<>>
  /\ phase = "start"
  /\ edits = 0
  /\ sv = NoSave
  /\ faults = 0
  /\ thrown = {}
  /\ tried = {}
  /\ rethrown = FALSE
  /\ files0 = files
  /\ folders0 = folders
  /\ ld = <<>>
  /\ smState = NoState
  /\ smError = FALSE
  /\ pubs = <<>>
  /\ saves = <<>>

\* the titles typed over the title of an item
RetypedTitles == {FileT, Bar}

\* updateItemContent(item, content): only titleRaw is replaced
updateItemContent(item, content) == [item EXCEPT !.titleRaw = content]

\* the title of an item is edited
UpdateItemContent ==
  /\ CanEdit
  /\ \E l \in 1..Len(board) : \E i \in 1..Len(board[l].children) :
     \E t \in RetypedTitles :
       /\ t # board[l].children[i].titleRaw
       /\ Edited([board EXCEPT
                    ![l].children[i] = updateItemContent(@, t)])

\* the check box of an item is ticked or cleared in memory
ToggleCheck ==
  /\ CanEdit
  /\ \E l \in 1..Len(board) : \E i \in 1..Len(board[l].children) :
       Edited([board EXCEPT
                 ![l].children[i].checked = ~@,
                 ![l].children[i].checkChar = IF @ = "x" THEN " " ELSE "x"])

\* the front matter written by saveItem(item, columnName): the copy of the
\* metadata gets completed: true for a checked item and is left as it is
\* otherwise
saveItemContent(item) ==
  LET copy == item.metadata
      done == IF item.checkChar = "x"
              THEN ("completed" :> "true") @@ copy
              ELSE copy
      par  == ("parent_id" :>
                 (IF Falsy(item.parent_id) THEN "null" ELSE item.parent_id))
              @@ done
      lists == OrDefault(OrDefault(par, "aliases", "[]"), "tags", "[]")
      idv  == IF item.file # NoFile THEN item.file[2]
              ELSE BaseNameForTitle(item.titleRaw)
  IN  [fm |-> ("id" :> idv) @@ lists, body |-> <<>>]

\* the path saveItem writes: the item's file name, or its sanitised title,
\* in the folder of the column
saveItemPath(item, col) ==
  <<col, IF item.file # NoFile THEN item.file[2]
         ELSE BaseNameForTitle(item.titleRaw)>>

\* saveItem(item, columnName): the column folder is created if missing, the
\* file at the path is modified if it exists and created otherwise; the
\* item's back-reference is not touched
saveItem(item, col, F, D, fault) ==
  IF col \notin D /\ fault = "mkdir"
  THEN Outcome(F, D, item.file, FALSE, TRUE)
  ELSE IF fault = "write"
  THEN Outcome(F, D \cup {col}, item.file, FALSE, TRUE)
  ELSE Outcome(Put(F, saveItemPath(item, col), saveItemContent(item)),
               D \cup {col}, item.file, TRUE, FALSE)

\* one item is saved by saveItem into the folder of its lane; sv names the
\* item; a throw is logged and thrown again
SaveItem ==
  /\ phase = "edit"
  /\ \E l \in 1..Len(board) : \E i \in 1..Len(board[l].children) :
     \E fault \in {"none", "mkdir", "write"} :
       LET item == board[l].children[i]
           r    == saveItem(item, board[l].title, files, folders, fault)
       IN  /\ fault # "none" => (faults < MaxFaults /\ r.hit)
           /\ files' = r.files
           /\ folders' = r.folders
           /\ faults' = IF fault = "none" THEN faults ELSE faults + 1
           /\ thrown' = IF r.ok THEN thrown ELSE thrown \cup {item.id}
           /\ sv' = [li |-> l, ii |-> i, expected |-> {}]
  /\ phase' = "itemSaved"
  /\ UNCHANGED <<unreadable, board, edits, tried, rethrown, files0, folders0,
                 loadVars, saves>>

\* the board is hydrated again from the vault the save left and installed
\* as the state; board keeps the in-memory board that was saved
Reload ==
  /\ phase = "saved"
  /\ hasFolderStructure(folders)
  /\ \E dirs \in Perms(columnFolders(folders)) :
     \E listing \in Listings(files, folders) :
       smState' = [set |-> TRUE,
                   children |-> loadFromFolderStructure(dirs, listing, files,
                                                        unreadable),
                   by |-> 0]
  /\ phase' = "reloaded"
  /\ UNCHANGED <<folders, files, unreadable, board, edits, files0, folders0,
                 saveVars, ld, smError, pubs>>

NextItem ==
  \/ Load
  \/ BoardToMd
  \/ SaveItemStep
  \/ CleanupStep

\* the item file is hydrated, the board is edited in memory, saved as a
\* whole or one item by saveItem, and hydrated again after a board save
NextItemEdits ==
  \/ Load
  \/ ToggleCheck
  \/ UpdateItemContent
  \/ AddItem
  \/ BoardToMd
  \/ SaveItemStep
  \/ CleanupStep
  \/ SaveItem
  \/ Reload

SpecItemEdits == InitItem /\ [][NextItemEdits]_vars

SpecItem == InitItem /\ [][NextItem]_vars

\* the item hydrated from A/t.md and the content it was hydrated from
TheItem == board[1].children[1]

TheContent == files0[<<ColA, FileT>>]

ValueOf(fm, k) == IF Has(fm, k) THEN fm[k] ELSE "undefined"

\* C14: a hydrated item is checked iff its front matter has completed ===
\* true, or status === "completed" (exact string), or done === true, and
\* its check marker is 'x' iff it is checked and a space otherwise.
C14_CheckedDerivation ==
  JustLoaded =>
    LET fm == TheContent.fm
        expected == \/ ValueOf(fm, "completed") = "true"
                    \/ ValueOf(fm, "status") = "completed"
                    \/ ValueOf(fm, "done") = "true"
    IN  /\ TheItem.checked = expected
        /\ TheItem.checkChar = (IF expected THEN "x" ELSE " ")

\* a file with status: Completed and a quoted completed: 'true' was
\* hydrated as unchecked
C14_Witness ==
  /\ JustLoaded
  /\ ValueOf(TheContent.fm, "status") = "Completed"
  /\ ValueOf(TheContent.fm, "completed") = QuotedTrue
  /\ ~Has(TheContent.fm, "done")
  /\ ~TheItem.checked /\ TheItem.checkChar = " "

\* the first block of the body that is a heading (0 if none)
FirstHeading(body) ==
  IF \E i \in 1..Len(body) : body[i].type = "heading"
  THEN CHOOSE i \in 1..Len(body) :
         /\ body[i].type = "heading"
         /\ \A j \in 1..(i - 1) : body[j].type # "heading"
  ELSE 0

\* C15: the title of a hydrated item is the front-matter title if present,
\* otherwise the text of the first heading block of the body if the body
\* has one, otherwise the base name of the file.
C15_TitlePrecedence ==
  JustLoaded =>
    LET c == TheContent
    IN  TheItem.titleRaw =
          IF HasTitle(c.fm) THEN c.fm["title"]
          ELSE IF FirstHeading(c.body) # 0
               THEN HeadingText(c.body[FirstHeading(c.body)].children)
          ELSE FileT

\* the same precedence with the heading looked for in the first block only
C15_FirstBlockOnly ==
  JustLoaded =>
    LET c == TheContent
    IN  TheItem.titleRaw =
          IF HasTitle(c.fm) THEN c.fm["title"]
          ELSE IF c.body # <<>> /\ c.body[1].type = "heading"
               THEN HeadingText(c.body[1].children)
          ELSE FileT

(***************************************************************************)
(* Cleanup and failures within one save.                                   *)
(***************************************************************************)
\* this step is a cleanupColumnFolder that deleted at least one file
CleanupDeletes ==
  /\ phase = "saving"
  /\ sv'.li = sv.li + 1
  /\ DOMAIN files' # DOMAIN files

\* C16: within one save no orphan is deleted before the item of every lane
\* of the board has been saved (or has failed): cleanup never runs between
\* the item writes of two lanes.
C16_CleanupSequencing ==
  [][CleanupDeletes => ItemIds(board) \subseteq tried]_vars

\* the cleanup that deletes comes after the items of its own lane and of the
\* lanes before it
C16_AfterOwnLane ==
  [][CleanupDeletes =>
       \A l \in 1..sv.li : \A i \in 1..Len(board[l].children) :
         board[l].children[i].id \in tried]_vars

\* the items hydrated from a file whose save threw
ThrownWithFile == thrown \cap DOMAIN files0

\* C17: after a save, the file of every item that had a back-reference and
\* whose update, move or rewrite threw still exists.
C17_FailedWriteKeepsFile ==
  Saved => \A id \in ThrownWithFile : Exists(files, FileOf(id))

\* the file is still there when the throw is caught
C17_KeptUntilCleanup ==
  [][\A id \in thrown' \ thrown :
       (id \in DOMAIN files0 /\ Exists(files, FileOf(id)))
         => Exists(files', ItemById(board', id).file)]_vars

\* C18: a file skipped by the load, because its read or parse failed, is
\* neither deleted nor modified by the save of the board that was loaded.
C18_SkippedFileKept ==
  \A p \in unreadable : Exists(files, p) /\ files[p] = files0[p]

\* no item write touches a skipped file
C18_KeptByItemWrites ==
  [][(phase = "saving" /\ sv'.li = sv.li)
       => \A p \in unreadable :
            Exists(files, p) => (Exists(files', p) /\ files'[p] = files[p])]_vars

(***************************************************************************)
(* Overlapping saves. boardToMd starts saveAllItemsToFolders and returns,  *)
(* so a second boardToMd can start a second save while the first one is    *)
(* awaiting a vault operation. A save runs without interruption from the   *)
(* completion of one awaited vault operation to the call of the next one;  *)
(* a vault operation takes effect when it completes, and throws if the     *)
(* vault no longer allows it; a create that completes when another create  *)
(* for the same path has completed either throws or returns that file. A   *)
(* file is named by its path. A save record is                             *)
(*   li, ii    the lane and the item the save is at                        *)
(*   expected  expectedFiles of the lane                                   *)
(*   op        the vault operation the save is awaiting                    *)
(***************************************************************************)
MaxSaves == 2

NoContent == [fm |-> <<>>, body |-> <<>>]

\* an awaited vault operation: createFolder (mkdir), create, renameFile,
\* modify, delete; `next` is what follows a createFolder
Op(kind, path, from, content, next, todo) ==
  [kind |-> kind, path |-> path, from |-> from, content |-> content,
   next |-> next, todo |-> todo]

Done == Op("done", <<>>, <<>>, NoContent, "", {})

\* vault.createFolder(`${boardFolder.path}/${columnName}`)
MkdirOp(col, next, from) == Op("mkdir", <<col>>, from, NoContent, next, {})

\* the probe loop of createNewItemFile, then vault.create(filePath, content)
CreateOp(item, col, F) ==
  Op("create", <<col, UniqueBase(F, col, BaseNameForTitle(item.titleRaw))>>,
     <<>>, generateItemFileContent(item), "", {})

\* the probe loop of moveItemToNewColumn, then fileManager.renameFile
RenameOp(from, col, F) ==
  Op("rename", <<col, MoveTargetBase(F, col, from[2])>>, from, NoContent,
     "", {})

\* updateItemFileContent: vault.modify(file, generateItemFileContent(item))
ModifyOp(item) ==
  Op("modify", item.file, <<>>, generateItemFileContent(item), "", {})

\* the deletions of cleanupColumnFolder, one awaited vault.delete per file
DeleteOp(gone) == Op("delete", <<>>, <<>>, NoContent, "", gone)

\* a saveItemToCorrectFolder that creates a file for every item, whether or
\* not the item records a source file
FirstOp_IgnoresBackReference(item, col, F, D) ==
  IF col \notin D THEN MkdirOp(col, "create", <<>>)
  ELSE CreateOp(item, col, F)

\* saveItemToCorrectFolder(item, col) up to its first awaited operation
FirstOp(item, col, F, D) ==
  IF item.file # NoFile
  THEN IF item.file[1] = col THEN ModifyOp(item)
       ELSE IF col \notin D THEN MkdirOp(col, "move", item.file)
       ELSE RenameOp(item.file, col, F)
  ELSE IF col \notin D THEN MkdirOp(col, "create", <<>>)
       ELSE CreateOp(item, col, F)

SaveAt(li, ii, expected, op) ==
  [li |-> li, ii |-> ii, expected |-> expected, op |-> op]

\* the loops of saveAllItemsToFolders from lane li, item ii up to the next
\* awaited vault operation; a lane with nothing to delete is passed over
RECURSIVE NextOp(_, _, _, _, _, _)
NextOp(b, F, D, li, ii, expected) ==
  IF li > Len(b) THEN SaveAt(li, ii, expected, Done)
  ELSE IF ii > Len(b[li].children)
  THEN LET gone == filesToRemove(F, D, b[li].title, expected)
       IN  IF gone = {} THEN NextOp(b, F, D, li + 1, 1, {})
           ELSE SaveAt(li, ii, expected, DeleteOp(gone))
  ELSE SaveAt(li, ii, expected,
              FirstOp(b[li].children[ii], b[li].title, F, D))

\* after saveItemToCorrectFolder returned (ok) or threw: the file the item
\* names now is recorded as expected only if nothing was thrown
AfterItem(b, F, D, p, ok) ==
  LET item == b[p.li].children[p.ii]
      exp  == IF ok /\ item.file # NoFile
              THEN p.expected \cup {item.file[2]} ELSE p.expected
  IN  NextOp(b, F, D, p.li, p.ii + 1, exp)

\* boardToMd(board) while an earlier save may still be running; the phase
\* is "resaving" when the earlier saves had all run to their end
StartSave ==
  /\ phase \in {"edit", "saving", "resaving"}
  /\ Len(saves) < MaxSaves
  /\ saves' = Append(saves, NextOp(board, files, folders, 1, 1, {}))
  /\ phase' = IF saves # <<>> /\ \A k \in 1..Len(saves) :
                                   saves[k].op.kind = "done"
             THEN "resaving" ELSE "saving"
  /\ UNCHANGED <<folders, files, unreadable, board, edits, sv, faults, thrown,
                 tried, rethrown, files0, folders0, loadVars>>

\* what a completion of an awaited operation leaves unchanged
SaveFrame ==
  UNCHANGED <<unreadable, phase, edits, sv, faults, tried, rethrown,
              files0, folders0, loadVars>>

\* the catch of the item loop (347-349): the item whose save threw
Caught(p) == thrown \cup {board[p.li].children[p.ii].id}

\* the completion of createFolder: it throws if the folder exists by now
MkdirDone(k) ==
  LET p    == saves[k]
      col  == p.op.path[1]
      item == board[p.li].children[p.ii]
  IN  /\ p.op.kind = "mkdir"
      /\ IF col \in folders
         THEN /\ saves' = [saves EXCEPT
                             ![k] = AfterItem(board, files, folders, p, FALSE)]
              /\ thrown' = Caught(p)
              /\ UNCHANGED folders
         ELSE /\ folders' = folders \cup {col}
              /\ UNCHANGED thrown
              /\ saves' = [saves EXCEPT
                             ![k].op = IF p.op.next = "create"
                                       THEN CreateOp(item, col, files)
                                       ELSE RenameOp(p.op.from, col, files)]
      /\ UNCHANGED <<files, board>>
      /\ SaveFrame

\* the completion of vault.create: the file exists and
\* item.data.metadata.file = newFile; if the path names a file by now the
\* create throws 'File already exists', or returns that file
CreateDone(k) ==
  LET p == saves[k]
  IN  /\ p.op.kind = "create"
      /\ \/ /\ Exists(files, p.op.path)
            /\ saves' = [saves EXCEPT
                           ![k] = AfterItem(board, files, folders, p, FALSE)]
            /\ thrown' = Caught(p)
            /\ UNCHANGED <<files, board>>
         \/ /\ files' = Put(files, p.op.path, p.op.content)
            /\ UNCHANGED thrown
            /\ board' = [board EXCEPT
                           ![p.li].children[p.ii].file = p.op.path]
            /\ saves' = [saves EXCEPT
                           ![k] = AfterItem(board', files', folders, p, TRUE)]
      /\ UNCHANGED folders
      /\ SaveFrame

\* the completion of renameFile: it throws if the file is gone or the
\* destination is taken, else the back-reference follows and the content is
\* rewritten next
RenameDone(k) ==
  LET p == saves[k]
  IN  /\ p.op.kind = "rename"
      /\ IF ~Exists(files, p.op.from) \/ Exists(files, p.op.path)
         THEN /\ saves' = [saves EXCEPT
                             ![k] = AfterItem(board, files, folders, p, FALSE)]
              /\ thrown' = Caught(p)
              /\ UNCHANGED <<files, board>>
         ELSE /\ files' = Put(Remove(files, p.op.from), p.op.path,
                              files[p.op.from])
              /\ UNCHANGED thrown
              /\ board' = [board EXCEPT
                             ![p.li].children[p.ii].file = p.op.path]
              /\ saves' = [saves EXCEPT
                             ![k].op = ModifyOp(board'[p.li].children[p.ii])]
      /\ UNCHANGED folders
      /\ SaveFrame

\* the completion of vault.modify: it throws if the file is gone
ModifyDone(k) ==
  LET p == saves[k]
  IN  /\ p.op.kind = "modify"
      /\ IF ~Exists(files, p.op.path)
         THEN /\ saves' = [saves EXCEPT
                             ![k] = AfterItem(board, files, folders, p, FALSE)]
              /\ thrown' = Caught(p)
              /\ UNCHANGED files
         ELSE /\ files' = Put(files, p.op.path, p.op.content)
              /\ saves' = [saves EXCEPT
                             ![k] = AfterItem(board, files', folders, p, TRUE)]
              /\ UNCHANGED thrown
      /\ UNCHANGED <<folders, board>>
      /\ SaveFrame

\* the completion of one vault.delete of cleanupColumnFolder (a throw is
\* caught and logged); after the last one the next lane is processed
DeleteDone(k) ==
  LET p == saves[k]
  IN  /\ p.op.kind = "delete"
      /\ \E f \in p.op.todo :
           /\ files' = IF Exists(files, f) THEN Remove(files, f) ELSE files
           /\ saves' = [saves EXCEPT
                          ![k] = IF p.op.todo = {f}
                                 THEN NextOp(board, files', folders,
                                             p.li + 1, 1, {})
                                 ELSE SaveAt(p.li, p.ii, p.expected,
                                             DeleteOp(p.op.todo \ {f}))]
      /\ UNCHANGED <<folders, board, thrown>>
      /\ SaveFrame

NextSaves ==
  \/ Load
  \/ AddItem
  \/ MoveItem
  \/ RemoveItem
  \/ RenameLane
  \/ RemoveLane
  \/ AddLane
  \/ StartSave
  \/ \E k \in 1..Len(saves) : MkdirDone(k)
  \/ \E k \in 1..Len(saves) : CreateDone(k)
  \/ \E k \in 1..Len(saves) : RenameDone(k)
  \/ \E k \in 1..Len(saves) : ModifyDone(k)
  \/ \E k \in 1..Len(saves) : DeleteDone(k)

SpecSaves == Init /\ [][NextSaves]_vars

\* every save that was started has run to its end
AllSettled == saves # <<>> /\ \A k \in 1..Len(saves) : saves[k].op.kind = "done"

\* the items of the board that had no back-reference when they were saved
\* first: the items created in memory
NewItems == {it \in ItemsOf(board) : it.id \notin DOMAIN files0}

\* the files of the vault that were not there at the load
CreatedFiles == (DOMAIN files) \ (DOMAIN files0)

\* one task was added to the loaded board and boardToMd was called twice
AddedOneSavedTwice ==
  /\ edits = 1
  /\ Cardinality(NewItems) = 1
  /\ Len(saves) = 2

\* C19: when boardToMd was invoked twice on a board with one new item and
\* both saves have settled, exactly one file backs the item: the file its
\* back-reference names exists and no other file was created for it.
C19_OverlappingSaves ==
  (AllSettled /\ AddedOneSavedTwice) =>
    \A it \in NewItems :
      /\ it.file # NoFile
      /\ Exists(files, it.file)
      /\ CreatedFiles = {it.file}

\* no save leaves two files created for the one new item
C19_NeverDuplicated ==
  (AllSettled /\ AddedOneSavedTwice) => Cardinality(CreatedFiles) <= 1

(***************************************************************************)
(* Ordering of overlapping loads.                                          *)
(***************************************************************************)
\* loads are numbered in the order they were started: ld[k] is the k-th
\* C20: the completion of an earlier-started load never replaces the shared
\* state after a later-started load has published, so the board installed
\* last is the one of the most recently started load that published.
C20_LoadOrdering ==
  /\ \A a, b \in 1..Len(pubs) : a < b => pubs[a].by < pubs[b].by
  /\ (smState.set /\ smState.by # 0) =>
       \A i \in 1..Len(pubs) : pubs[i].by <= smState.by

\* the state installed by a load is the one of the last setState made
C20_LastCompletionWins ==
  (smState.set /\ smState.by # 0) =>
    (pubs # <<>> /\ smState.by = pubs[Len(pubs)].by)

(***************************************************************************)
(* Saving the same board again.                                            *)
(***************************************************************************)
\* boardToMd(board) called when no save is running
StartSaveAlone ==
  /\ \A k \in 1..Len(saves) : saves[k].op.kind = "done"
  /\ StartSave

\* saves that follow one another: each is started after the one before it
\* has run to its end
NextResave ==
  \/ Load
  \/ AddItem
  \/ MoveItem
  \/ RemoveItem
  \/ RenameLane
  \/ RemoveLane
  \/ AddLane
  \/ StartSaveAlone
  \/ \E k \in 1..Len(saves) : MkdirDone(k)
  \/ \E k \in 1..Len(saves) : CreateDone(k)
  \/ \E k \in 1..Len(saves) : RenameDone(k)
  \/ \E k \in 1..Len(saves) : ModifyDone(k)
  \/ \E k \in 1..Len(saves) : DeleteDone(k)

SpecResave == Init /\ [][NextResave]_vars

\* the completion of a vault operation of a save that was started after
\* every earlier save had run to its end, no item having thrown so far
ResaveStep ==
  /\ phase = "resaving"
  /\ phase' = "resaving"
  /\ Len(saves') = Len(saves)
  /\ thrown = {}

\* the step rewrites, in place, the file the item at hand records
RewritesInPlace ==
  LET p    == saves[Len(saves)]
      item == board[p.li].children[p.ii]
  IN  /\ p.op.kind = "modify"
      /\ item.file # NoFile
      /\ p.op.path = item.file
      /\ Exists(files, item.file)
      /\ files' = Put(files, item.file, generateItemFileContent(item))
      /\ DOMAIN files' = DOMAIN files
      /\ folders' = folders
      /\ board' = board
      /\ thrown' = {}

\* the save that was started last has ended and every save ran without a
\* failed vault operation
ResaveSettled == phase = "resaving" /\ AllSettled /\ thrown = {}

\* C21: once a save has completed without a failed vault operation, saving
\* the same in-memory board again creates no file, renames none and deletes
\* none: every step of the second save rewrites in place the file its item
\* records, and at its end every item, the ones created by the first save
\* included, is backed by that file with the content generated for it.
C21_SecondSaveIsPureUpdate ==
  /\ [][ResaveStep => RewritesInPlace]_vars
  /\ [](ResaveSettled =>
          \A it \in ItemsOf(board) :
            /\ it.file # NoFile
            /\ Exists(files, it.file)
            /\ files[it.file] = generateItemFileContent(it))

\* a board with an item created in memory and a hydrated one was saved twice
C21_Witness ==
  /\ ResaveSettled
  /\ NewItems # {}
  /\ ItemsOf(board) \ NewItems # {}
  /\ \E it \in NewItems : it.file[2] # BaseNameForTitle(it.titleRaw)

(***************************************************************************)
(* The id written into an item file.                                       *)
(***************************************************************************)
\* the files a save without a failed operation has written: a file that was
\* not in the vault at the load, or whose content differs from the loaded one
WrittenFiles ==
  {p \in DOMAIN files : p \notin DOMAIN files0 \/ files[p] # files0[p]}

IdMirrors(p) == Has(files[p].fm, "id") /\ files[p].fm["id"] = p[2]

\* C22: in every item file written by a save (created, updated or moved,
\* suffixed names included) the front-matter id equals the base name of the
\* file.
C22_IdMirrorsFilename ==
  faults = 0 => \A p \in WrittenFiles : IdMirrors(p)

\* the id of a written file is the base name of the file whenever the item
\* had a back-reference when its content was generated (update and move); a
\* created file carries the sanitised title of its item
C22_IdOfWrittenFile ==
  faults = 0 =>
    \A p \in WrittenFiles :
      \/ IdMirrors(p)
      \/ \E it \in ItemsOf(board) :
           /\ IsNew(it)
           /\ it.file = p
           /\ files[p].fm["id"] = BaseNameForTitle(it.titleRaw)
           /\ p[2] = Suffixed(BaseNameForTitle(it.titleRaw), 1)
                \/ p[2] = Suffixed(BaseNameForTitle(it.titleRaw), 2)

(***************************************************************************)
(* Allocation of a file name in a column folder.                           *)
(***************************************************************************)
\* the step saves the item at hand and leaves it with another file than it
\* had: a file was created for it, or its file was renamed
AllocatesFile ==
  /\ phase = "saving"
  /\ sv.ii <= Len(board[sv.li].children)
  /\ sv'.li = sv.li
  /\ sv'.ii = sv.ii + 1
  /\ board'[sv.li].children[sv.ii].file # board[sv.li].children[sv.ii].file

\* new is <col>/b.md if that path is free in F, else <col>/b_k.md for the
\* smallest k >= 1 whose path is free, and it names no file of F
AllocatedFor(F, col, b, new) ==
  /\ new[1] = col
  /\ ~Exists(F, new)
  /\ IF ~Exists(F, <<col, b>>) THEN new[2] = b
     ELSE \E k \in 1..(Cardinality(DOMAIN F) + 1) :
            /\ new[2] = Suffixed(b, k)
            /\ \A j \in 1..(k - 1) : Exists(F, <<col, Suffixed(b, j)>>)

\* C23: the path allocated for an item in its column folder is b.md if it is
\* free and otherwise b_k.md for the least k >= 1 that is free, and never
\* the path of an existing file; b is the sanitised title for a created file
\* and the file's own base name for a moved one.
C23_FilenameAllocation ==
  [][AllocatesFile =>
       LET lane == board[sv.li]
           item == lane.children[sv.ii]
           new  == board'[sv.li].children[sv.ii].file
           b    == IF item.file = NoFile
                   THEN BaseNameForTitle(item.titleRaw)
                   ELSE item.file[2]
       IN  /\ AllocatedFor(files, lane.title, b, new)
           /\ Exists(files', new)]_vars

\* a moved file was renamed to t_1.md and the next new item got t_2.md
C23_Witness ==
  /\ Saved
  /\ \E it \in ItemsOf(board) :
       /\ IsNew(it)
       /\ it.titleRaw = FileT
       /\ it.file # NoFile
       /\ it.file[2] = Suffixed(FileT, 2)
       /\ Exists(files, it.file)
  /\ \E it \in ItemsOf(board) :
       /\ ~IsNew(it)
       /\ it.id[2] = FileT
       /\ it.file # it.id
       /\ it.file[2] = Suffixed(FileT, 1)
       /\ Exists(files, it.file)

(***************************************************************************)
(* What a save and a reload keep of an item.                               *)
(***************************************************************************)
\* the board was saved with no failed operation and hydrated again
Reloaded == phase = "reloaded" /\ faults = 0 /\ thrown = {}

\* the item hydrated from the file at path p by the reload
ReloadedItem(p) == ItemById(smState.children, p)

\* every item of the saved board was hydrated again from its file
AllReloaded ==
  \A it \in ItemsOf(board) :
    it.file # NoFile /\ it.file \in ItemIds(smState.children)

\* the item carries one of the alternate completion keys in its metadata
HasAlternate(it) ==
  \/ ValueOf(it.metadata, "status") = "completed"
  \/ ValueOf(it.metadata, "done") = "true"

\* C24: the checked state hydrated from an item's file after a save equals
\* the checked state the item had in memory when it was saved; an item
\* loaded as checked and unchecked in memory is hydrated as unchecked.
C24_CheckedSurvives ==
  Reloaded =>
    /\ AllReloaded
    /\ \A it \in ItemsOf(board) : ReloadedItem(it.file).checked = it.checked

\* the checked state survives for every item but an unchecked one whose
\* metadata holds status: completed or done: true
C24_SurvivesWithoutAlternate ==
  Reloaded =>
    /\ AllReloaded
    /\ \A it \in ItemsOf(board) :
         ReloadedItem(it.file).checked = (it.checked \/ HasAlternate(it))

\* C25: the title hydrated from an item's file after a save equals the
\* titleRaw the item had in memory when it was saved, whether it came from a
\* front-matter title, from a heading, from updateItemContent or from
\* newItem.
C25_TitleSurvives ==
  Reloaded =>
    /\ AllReloaded
    /\ \A it \in ItemsOf(board) : ReloadedItem(it.file).titleRaw = it.titleRaw

\* the saved file has no body and only the title key the metadata had, so
\* the hydrated title is that key's value, or else the file's base name
C25_TitleAfterSave ==
  Reloaded =>
    /\ AllReloaded
    /\ \A it \in ItemsOf(board) :
         /\ files[it.file].body = <<>>
         /\ ReloadedItem(it.file).titleRaw =
              IF HasTitle(it.metadata) THEN it.metadata["title"]
              ELSE it.file[2]

\* the title survives for an unedited item hydrated from a front-matter
\* title or from the base name of its file
C25_SurvivesWhenStored ==
  Reloaded =>
    \A it \in ItemsOf(board) :
      (~IsNew(it) /\ it.titleRaw =
           (IF HasTitle(it.metadata) THEN it.metadata["title"] ELSE FileT))
        => ReloadedItem(it.file).titleRaw = it.titleRaw

\* the front matter fm has completed: true if checked and no key completed
\* otherwise
EmitsCompleted(fm, checked) ==
  IF checked THEN ValueOf(fm, "completed") = "true"
  ELSE ~Has(fm, "completed")

\* the item saveItem was called for
SavedItem == board[sv.li].children[sv.ii]

\* C26: every write of an item file, by generateItemFileContent in a board
\* save and by saveItem, emits completed: true iff the item is checked; for
\* an unchecked item the key is absent, also when the metadata had it.
C26_CompletedOnWrite ==
  /\ (Saved /\ faults = 0 /\ thrown = {}) =>
       \A it \in ItemsOf(board) :
         EmitsCompleted(files[it.file].fm, it.checked)
  /\ (phase = "itemSaved" /\ thrown = {}) =>
       EmitsCompleted(files[saveItemPath(SavedItem, ColA)].fm,
                      SavedItem.checked)

\* the writes of a board save emit the key as claimed
C26_BoardSaveEmits ==
  (Saved /\ faults = 0 /\ thrown = {}) =>
    \A it \in ItemsOf(board) :
      /\ it.file # NoFile
      /\ Exists(files, it.file)
      /\ EmitsCompleted(files[it.file].fm, it.checked)

\* saveItem emits completed: true for a checked item and leaves the key as
\* the metadata has it for an unchecked one
C26_SaveItemKeepsKey ==
  (phase = "itemSaved" /\ thrown = {}) =>
    LET fm == files[saveItemPath(SavedItem, ColA)].fm
    IN  IF SavedItem.checked THEN ValueOf(fm, "completed") = "true"
        ELSE ValueOf(fm, "completed") = ValueOf(SavedItem.metadata, "completed")

(***************************************************************************)
(* Front-matter keys the plugin does not interpret.                        *)
(***************************************************************************)
\* the keys the save sets or removes itself
ManagedKeys == {"completed", "parent_id", "aliases", "tags", "id"}

\* the file now backing the hydrated item kept key k of the loaded front
\* matter with its value
KeptKey(it, k) ==
  /\ Has(files[it.file].fm, k)
  /\ files[it.file].fm[k] = files0[it.id].fm[k]

\* a board save without a failed operation has ended
SavedCleanly == Saved /\ faults = 0 /\ thrown = {}

\* C27: every key of a loaded file's front matter other than completed,
\* parent_id, aliases, tags and id, whatever its name, is written back with
\* the value it was loaded with.
C27_PassThroughFields ==
  SavedCleanly =>
    \A it \in ItemsOf(board) :
      ~IsNew(it) =>
        \A k \in (DOMAIN files0[it.id].fm) \ ManagedKeys : KeptKey(it, k)

\* every such key but one named file is written back with its value, and a
\* key named file is never written
C27_AllButFileKey ==
  SavedCleanly =>
    \A it \in ItemsOf(board) :
      ~IsNew(it) =>
        /\ \A k \in (DOMAIN files0[it.id].fm) \ (ManagedKeys \cup {"file"}) :
             KeptKey(it, k)
        /\ ~Has(files[it.file].fm, "file")

(***************************************************************************)
(* A save while the folder of the board file cannot be resolved.           *)
(***************************************************************************)
\* boardToMd(board) while getBoardFolder() returns null: every
\* saveItemToCorrectFolder throws 'Board folder not found' inside the try of
\* the item loop, every cleanupColumnFolder returns at once, and
\* saveAllItemsToFolders resolves; no vault operation is awaited
BoardToMdNoRoot ==
  /\ phase = "edit"
  /\ phase' = "savedNoRoot"
  /\ thrown' = ItemIds(board)
  /\ tried' = ItemIds(board)
  /\ UNCHANGED <<folders, files, unreadable, board, edits, sv, faults,
                 rethrown, files0, folders0, loadVars, saves>>

NextRoot ==
  \/ Load
  \/ LoadFails
  \/ MoveItem
  \/ RemoveItem
  \/ AddItem
  \/ RenameLane
  \/ RemoveLane
  \/ AddLane
  \/ BoardToMd
  \/ BoardToMdNoRoot
  \/ SaveItemStep
  \/ CleanupStep

SpecRoot == Init /\ [][NextRoot]_vars

\* a save has run to its end without a resolvable board folder
SavedNoRoot == phase = "savedNoRoot"

\* C28: when the board root cannot be resolved while a save runs, the save
\* fails as a whole and the error is reported through setError; it is not
\* swallowed as failures of the single items.
C28_StructuralAbsenceOnSave ==
  SavedNoRoot => (smError /\ thrown = {})

\* such a save reports nothing: the error is thrown and caught once per
\* item, the vault is left as it was
C28_SwallowedPerItem ==
  SavedNoRoot =>
    /\ ~smError
    /\ ~rethrown
    /\ thrown = ItemIds(board)
    /\ files = files0
    /\ folders = folders0

(***************************************************************************)
(* Item files that cannot be read or parsed.                               *)
(***************************************************************************)
\* the vaults of InitVault with any of their item files unreadable
InitUnreadable ==
  /\ folders \in SUBSET {ColA, ColB}
  /\ \E P \in SUBSET {p \in InitPaths : p[1] \in folders} :
       files = [p \in P |-> Plain]
  /\ unreadable \in SUBSET (DOMAIN files)
  /\ board = <<>>
  /\ phase = "start"
  /\ edits = 0
  /\ sv = NoSave
  /\ faults = 0
  /\ thrown = {}
  /\ tried = {}
  /\ rethrown = FALSE
  /\ files0 = files
  /\ folders0 = folders
  /\ ld = <<>>
  /\ smState = NoState
  /\ smError = FALSE
  /\ pubs = <<>>
  /\ saves = <<>>

SpecUnreadable == InitUnreadable /\ [][NextLoad]_vars

\* a load of a vault with an unreadable item file has settled after it was
\* started on a resolvable root with a folder structure, and the read of the
\* board file (reparseBoard) did not fail
SettledOverUnreadable(l) ==
  /\ unreadable # {}
  /\ l.pc = "settled"
  /\ CanHydrate(l.root, folders)
  /\ l.kind = "reparseBoard" => l.outcome # "setError"

\* the lanes hold one item for every readable file of the vault, in the
\* lane of its folder, and none for an unreadable one
HoldsReadableFiles(lanes) ==
  /\ ItemIds(lanes) = (DOMAIN files) \ unreadable
  /\ \A i \in 1..Len(lanes) :
       {it.id : it \in {lanes[i].children[j] : j \in 1..Len(lanes[i].children)}}
         = FilesIn(files, lanes[i].title) \ unreadable

\* C29: when an item file cannot be read or parsed, the load leaves that
\* file out, hydrates every other file of the same and of the other
\* columns, succeeds and publishes the board.
C29_PerFileLoadIsolation ==
  \A k \in 1..Len(ld) :
    SettledOverUnreadable(ld[k]) =>
      /\ ld[k].outcome = "setState"
      /\ \E i \in 1..Len(pubs) :
           pubs[i].by = k /\ HoldsReadableFiles(pubs[i].children)

\* the hydration itself is isolated: a started hydration never rejects and
\* yields the readable files; it is published when a state is installed
C29_HydrationIsolated ==
  \A k \in 1..Len(ld) :
    SettledOverUnreadable(ld[k]) =>
      /\ ld[k].outcome \in {"setState", "dropped"}
      /\ HoldsReadableFiles(ld[k].lanes)
      /\ ld[k].outcome = "setState" =>
           \E i \in 1..Len(pubs) :
             pubs[i].by = k /\ HoldsReadableFiles(pubs[i].children)

(***************************************************************************)
(* Order of columns and items.                                             *)
(***************************************************************************)
\* the columns of b are in non-decreasing order of title
ColumnsSorted(b) ==
  \A i, j \in 1..Len(b) :
    i < j => LocaleCompare(b[i].title, b[j].title) <= 0

\* the items of every column of b are in non-decreasing order of title
ItemsSorted(b) ==
  \A l \in 1..Len(b) : \A i, j \in 1..Len(b[l].children) :
    i < j => LocaleCompare(b[l].children[i].titleRaw,
                           b[l].children[j].titleRaw) <= 0

\* C30: after a load and after a save the columns of the board are in
\* alphabetical order of title, and after a load the items of every column
\* are in order of title whatever order the listing returned them in.
C30_DeterministicOrder ==
  /\ JustLoaded => (ColumnsSorted(board) /\ ItemsSorted(board))
  /\ Saved => ColumnsSorted(board)

\* the load sorts columns and items, and yields the same board for every
\* order of the listings
C30_SortedAfterLoad ==
  JustLoaded =>
    /\ ColumnsSorted(board)
    /\ ItemsSorted(board)
    /\ \A dirs \in Perms(columnFolders(folders)) :
       \A listing \in Listings(files, folders) :
         board = loadFromFolderStructure(dirs, listing, files, unreadable)

\* a save leaves the order of the columns as the in-memory board has it
C30_SaveKeepsOrder ==
  [][(phase = "saving" \/ phase' = "saving") =>
       [l \in 1..Len(board') |-> board'[l].title]
         = [l \in 1..Len(board) |-> board[l].title]]_vars

====
